---- MODULE Spec2Model ----
(***************************************************************************)
(* NFCClient: the NDEF message codec (ndef.js) and the serial frame layer  *)
(* (comms.js), modelled from the JavaScript source.                        *)
(*                                                                         *)
(* Conventions.  A JavaScript array or string is a TLA+ sequence; the      *)
(* JavaScript index i is the TLA+ index i + 1.  A string is the sequence   *)
(* of its character codes.  A byte is a number in 0..255.  The value       *)
(* `undefined' (what an out-of-range array read yields) is Undefined.      *)
(***************************************************************************)
EXTENDS Integers, Sequences, FiniteSets, TLC

\* ------------------------------------------------------------------------
\* JavaScript value helpers
\* ------------------------------------------------------------------------

\* the element of a one-element set.  Value({F(x) : x \in {e}}) is F(e)
\* with e evaluated once, before F uses it
Value(S) == CHOOSE r \in S : TRUE

\* data[i] with i outside 0..length-1 yields undefined
Undefined == -1

\* data[i] (JavaScript index)
Read(data, i) == IF i >= 0 /\ i < Len(data) THEN data[i + 1] ELSE Undefined

\* ToInt32 of an operand of a bit operator: undefined becomes 0
ToInt(v) == IF v = Undefined THEN 0 ELSE v

\* b << 24 as a signed 32-bit value: bit 7 of b becomes the sign bit
ShiftLeft24(b) == IF b >= 128 THEN (b - 256) * 16777216 ELSE b * 16777216

\* bit i of the byte b
Bit(b, i) == (b \div (2 ^ i)) % 2

\* a | b on values below 256
BitOr(a, b) ==
    LET o(i) == IF Bit(a, i) = 1 \/ Bit(b, i) = 1 THEN 2 ^ i ELSE 0
    IN  o(0) + o(1) + o(2) + o(3) + o(4) + o(5) + o(6) + o(7)

\* b & mask for a single-bit mask 2^i: the mask or 0
BitTest(b, i) == Bit(ToInt(b), i) * (2 ^ i)

\* String.fromCharCode( v ): undefined converts to the character code 0
FromCharCode(v) == IF v = Undefined THEN 0 ELSE v

\* Array.prototype.slice( start, end ) on integer arguments
Slice(data, start, end) ==
    LET n == Len(data)
        k == IF start < 0 THEN (IF n + start > 0 THEN n + start ELSE 0)
             ELSE (IF start < n THEN start ELSE n)
        f == IF end < 0 THEN (IF n + end > 0 THEN n + end ELSE 0)
             ELSE (IF end < n THEN end ELSE n)
    IN  IF f > k THEN SubSeq(data, k + 1, f) ELSE <<>>

\* String.prototype.substr( start ) for 0 <= start
Substr(str, start) ==
    IF start >= Len(str) THEN <<>> ELSE SubSeq(str, start + 1, Len(str))

\* String.prototype.toLowerCase on one byte-valued character: A-Z and the
\* Latin-1 capitals (0xC0..0xDE without 0xD7) move up by 0x20
LowerChar(c) ==
    IF (c >= 65 /\ c <= 90) \/ (c >= 192 /\ c <= 222 /\ c # 215)
    THEN c + 32 ELSE c

ToLowerCase(str) == [i \in 1..Len(str) |-> LowerChar(str[i])]

\* ------------------------------------------------------------------------
\* ndef.js: Header
\* ------------------------------------------------------------------------

\* new Header(): flags false (0), TNF 0x01
Header == [messageBegin |-> 0, messageEnd |-> 0, chunked |-> 0,
           shortRecord |-> 0, IDLength |-> 0, TNF |-> 1]

\* a flag is set when its value is truthy; true is 1, false is 0
Truthy(v) == v # 0

JsBool(p) == IF p THEN 1 ELSE 0

\* Header.prototype.toByte with the chunked flag written to the
\* short-record bit
toByteChunkedAsShort(h) ==
    LET b0 == h.TNF
        b1 == IF Truthy(h.messageBegin) THEN BitOr(b0, 128) ELSE b0
        b2 == IF Truthy(h.messageEnd) THEN BitOr(b1, 64) ELSE b1
        b3 == IF Truthy(h.chunked) THEN BitOr(b2, 16) ELSE b2
        b4 == IF Truthy(h.shortRecord) THEN BitOr(b3, 16) ELSE b3
        b5 == IF Truthy(h.IDLength) THEN BitOr(b4, 8) ELSE b4
    IN  b5

\* Header.prototype.toByte
toByte(h) ==
    LET b0 == h.TNF
        b1 == IF Truthy(h.messageBegin) THEN BitOr(b0, 128) ELSE b0
        b2 == IF Truthy(h.messageEnd) THEN BitOr(b1, 64) ELSE b1
        b3 == IF Truthy(h.chunked) THEN BitOr(b2, 32) ELSE b2
        b4 == IF Truthy(h.shortRecord) THEN BitOr(b3, 16) ELSE b3
        b5 == IF Truthy(h.IDLength) THEN BitOr(b4, 8) ELSE b4
    IN  b5

\* Header.prototype.fromByte: each flag keeps the masked value
fromByte(b) ==
    [messageBegin |-> BitTest(b, 7), messageEnd |-> BitTest(b, 6),
     chunked |-> BitTest(b, 5), shortRecord |-> BitTest(b, 4),
     IDLength |-> BitTest(b, 3), TNF |-> ToInt(b) % 8]

\* ------------------------------------------------------------------------
\* ndef.js: record types
\* ------------------------------------------------------------------------

\* type names, as character codes
TYPE_TEXT == <<84>>                                        \* "T"
TYPE_URI == <<85>>                                         \* "U"
TYPE_AAR == <<97, 110, 100, 114, 111, 105, 100, 46, 99,
              111, 109, 58, 112, 107, 103>>                \* "android.com:pkg"

\* Record.typeKeys, in registration order
typeKeys == <<TYPE_TEXT, TYPE_URI, TYPE_AAR>>

\* Record.extend without its tnf argument: every prototype keeps the TNF
\* of Record
TypeTNFDefault(type) == 1

\* the TNF Record.extend leaves on the prototype of each type
TypeTNF(type) == IF type = TYPE_AAR THEN 4 ELSE 1

\* a record object: the Record fields and the fields of the three subtypes
\* (a field a subtype does not have is the empty string)
MkRecord(type, bytes, lang, text, uri, pkg) ==
    [type |-> type, TNF |-> TypeTNF(type), bytes |-> bytes,
     lang |-> lang, text |-> text, URI |-> uri, packageName |-> pkg]

LANG_EN == <<101, 110>>                                    \* "en"

\* TextRecord.prototype.parse with the text read from index 2
TextRecordParseFromTwo(data) ==
    LET bytes == IF Len(data) < 3 THEN <<2, 101, 110>> ELSE data
    IN  MkRecord(TYPE_TEXT, bytes,
                 <<FromCharCode(bytes[2]), FromCharCode(bytes[3])>>,
                 [i \in 1..(Len(bytes) - 2) |-> FromCharCode(bytes[i + 2])],
                 <<>>, <<>>)

\* TextRecord.prototype.parse
TextRecordParse(data) ==
    LET bytes == IF Len(data) < 3 THEN <<2, 101, 110>> ELSE data
    IN  MkRecord(TYPE_TEXT, bytes,
                 <<FromCharCode(bytes[2]), FromCharCode(bytes[3])>>,
                 [i \in 1..(Len(bytes) - 3) |-> FromCharCode(bytes[i + 3])],
                 <<>>, <<>>)

\* TextRecord.prototype.reset
TextRecordReset(text) ==
    MkRecord(TYPE_TEXT, <<Len(LANG_EN)>> \o LANG_EN \o text,
             LANG_EN, text, <<>>, <<>>)

\* URIRecord.prototype.ProtocolList
ProtocolList == <<
    <<>>,  \* 0: ""
    <<104, 116, 116, 112, 58, 47, 47, 119, 119, 119, 46>>,  \* 1: "http://www."
    <<104, 116, 116, 112, 115, 58, 47, 47, 119, 119, 119, 46>>,  \* 2: "https://www."
    <<104, 116, 116, 112, 58, 47, 47>>,  \* 3: "http://"
    <<104, 116, 116, 112, 115, 58, 47, 47>>,  \* 4: "https://"
    <<116, 101, 108, 58>>,  \* 5: "tel:"
    <<109, 97, 105, 108, 116, 111, 58>>,  \* 6: "mailto:"
    <<102, 116, 112, 58, 47, 47, 97, 110, 111, 110, 121, 109, 111, 117, 115, 58, 97, 110, 111, 110, 121, 109, 111, 117, 115, 64>>,  \* 7: "ftp://anonymous:anonymous@"
    <<102, 116, 112, 58, 47, 47, 102, 116, 112, 46>>,  \* 8: "ftp://ftp."
    <<102, 116, 112, 115, 58, 47, 47>>,  \* 9: "ftps://"
    <<115, 102, 116, 112, 58, 47, 47>>,  \* 10: "sftp://"
    <<115, 109, 98, 58, 47, 47>>,  \* 11: "smb://"
    <<110, 102, 115, 58, 47, 47>>,  \* 12: "nfs://"
    <<102, 116, 112, 58, 47, 47>>,  \* 13: "ftp://"
    <<100, 97, 118, 58, 47, 47>>,  \* 14: "dav://"
    <<110, 101, 119, 115, 58>>,  \* 15: "news:"
    <<116, 101, 108, 110, 101, 116, 58, 47, 47>>,  \* 16: "telnet://"
    <<105, 109, 97, 112, 58>>,  \* 17: "imap:"
    <<114, 116, 115, 112, 58, 47, 47>>,  \* 18: "rtsp://"
    <<117, 114, 110, 58>>,  \* 19: "urn:"
    <<112, 111, 112, 58>>,  \* 20: "pop:"
    <<115, 105, 112, 58>>,  \* 21: "sip:"
    <<115, 105, 112, 115, 58>>,  \* 22: "sips:"
    <<116, 102, 116, 112, 58>>,  \* 23: "tftp:"
    <<98, 116, 115, 112, 112, 58, 47, 47>>,  \* 24: "btspp://"
    <<98, 116, 108, 50, 99, 97, 112, 58, 47, 47>>,  \* 25: "btl2cap://"
    <<98, 116, 103, 111, 101, 112, 58, 47, 47>>,  \* 26: "btgoep://"
    <<116, 99, 112, 111, 98, 101, 120, 58, 47, 47>>,  \* 27: "tcpobex://"
    <<105, 114, 100, 97, 111, 98, 101, 120, 58, 47, 47>>,  \* 28: "irdaobex://"
    <<102, 105, 108, 101, 58, 47, 47>>,  \* 29: "file://"
    <<117, 114, 110, 58, 101, 112, 99, 58, 105, 100, 58>>,  \* 30: "urn:epc:id:"
    <<117, 114, 110, 58, 101, 112, 99, 58, 116, 97, 103, 58>>,  \* 31: "urn:epc:tag:"
    <<117, 114, 110, 58, 101, 112, 99, 58, 112, 97, 116, 58>>,  \* 32: "urn:epc:pat:"
    <<117, 114, 110, 58, 101, 112, 99, 58, 114, 97, 119, 58>>,  \* 33: "urn:epc:raw:"
    <<117, 114, 110, 58, 101, 112, 99, 58>>,  \* 34: "urn:epc:"
    <<117, 114, 110, 58, 110, 102, 99, 58>>  \* 35: "urn:nfc:"
>>

\* ProtocolList[i] (JavaScript index); index 36 is undefined, which the
\* RegExp constructor turns into the text "undefined"
ProtocolPattern(i) ==
    IF i < Len(ProtocolList) THEN ProtocolList[i + 1]
    ELSE <<117, 110, 100, 101, 102, 105, 110, 101, 100>>

\* lc.match( new RegExp( "^" + pattern )): the pattern characters are
\* literal except '.', which matches any character but a line terminator
RegExpMatch(lc, pattern) ==
    /\ Len(lc) >= Len(pattern)
    /\ \A i \in 1..Len(pattern) :
          IF pattern[i] = 46 THEN lc[i] \notin {10, 13}
          ELSE lc[i] = pattern[i]

\* the protocol search loop of URIRecord.prototype.reset: the value of
\* `protocol' after the for statement
ProtocolSearch(lc) ==
    LET hits == {p \in 1..Len(ProtocolList) : RegExpMatch(lc, ProtocolPattern(p))}
    IN  IF hits = {} THEN Len(ProtocolList) + 1
        ELSE CHOOSE p \in hits : \A q \in hits : p <= q

\* URIRecord.prototype.reset
URIRecordReset(uri) ==
    LET found == ProtocolSearch(ToLowerCase(uri))
        protocol == IF found >= Len(ProtocolList) THEN 0 ELSE found
        remainder == Substr(uri, Len(ProtocolList[protocol + 1]))
    IN  MkRecord(TYPE_URI, <<protocol>> \o remainder, <<>>, <<>>, uri, <<>>)

\* URIRecord.prototype.parse with the index compared by > instead of >=
URIRecordParseGreater(data) ==
    IF Len(data) < 1 THEN MkRecord(TYPE_URI, <<>>, <<>>, <<>>, <<>>, <<>>)
    ELSE LET protocol == IF data[1] > Len(ProtocolList) THEN 0 ELSE data[1]
         IN  MkRecord(TYPE_URI, data, <<>>, <<>>,
                      ProtocolPattern(protocol)
                        \o [i \in 1..(Len(data) - 1) |-> FromCharCode(data[i + 1])],
                      <<>>)

\* URIRecord.prototype.parse
URIRecordParse(data) ==
    IF Len(data) < 1 THEN MkRecord(TYPE_URI, <<>>, <<>>, <<>>, <<>>, <<>>)
    ELSE LET protocol == IF data[1] >= Len(ProtocolList) THEN 0 ELSE data[1]
         IN  MkRecord(TYPE_URI, data, <<>>, <<>>,
                      ProtocolList[protocol + 1]
                        \o [i \in 1..(Len(data) - 1) |-> FromCharCode(data[i + 1])],
                      <<>>)

\* AndroidApplicationRecord.prototype.parse
AndroidApplicationRecordParse(data) ==
    MkRecord(TYPE_AAR, data, <<>>, <<>>, <<>>,
             [i \in 1..Len(data) |-> FromCharCode(data[i])])

\* AndroidApplicationRecord.prototype.reset
AndroidApplicationRecordReset(text) ==
    MkRecord(TYPE_AAR, text, <<>>, <<>>, <<>>, text)

\* the constructors TextRecord / URIRecord / AndroidApplicationRecord called
\* with a string argument
NewFromString(type, str) ==
    IF type = TYPE_TEXT THEN TextRecordReset(str)
    ELSE IF type = TYPE_URI THEN URIRecordReset(str)
    ELSE AndroidApplicationRecordReset(str)

\* Record.typeKeys[type]( recordData ): the constructors called with an array
NewFromBytes(type, data) ==
    IF type = TYPE_TEXT THEN TextRecordParse(data)
    ELSE IF type = TYPE_URI THEN URIRecordParse(data)
    ELSE AndroidApplicationRecordParse(data)

\* ------------------------------------------------------------------------
\* ndef.js: Record and Message, binary form
\* ------------------------------------------------------------------------

\* a thrown string: its literal text, then the characters and the numbers
\* that the code concatenates into it
Thrown(lit, chars, nums) == [lit |-> lit, chars |-> chars, nums |-> nums]

NoError == Thrown("", <<>>, <<>>)

NoRecord == MkRecord(<<>>, <<>>, <<>>, <<>>, <<>>, <<>>)

\* LengthField with a 2-byte long form
LengthFieldTwoBytes(n, short) ==
    IF short THEN <<n>> ELSE <<(n \div 256) % 256, n % 256>>

\* the record length field of Record.prototype.getBytes: one byte, or the
\* four bytes (n >> 24) & 0xff ... n & 0xff
LengthField(n, short) ==
    IF short THEN <<n>>
    ELSE <<(n \div 16777216) % 256, (n \div 65536) % 256,
           (n \div 256) % 256, n % 256>>

\* Record.prototype.getBytes with the end flag copied from the begin flag
RecordGetBytesEndIsFirst(rec, first, last) ==
    LET data == rec.bytes
        header == [Header EXCEPT !.messageBegin = JsBool(first),
                                 !.messageEnd = JsBool(first),
                                 !.TNF = rec.TNF,
                                 !.shortRecord = JsBool(Len(data) < 256)]
    IN  <<toByte(header), Len(rec.type)>>
          \o LengthField(Len(data), Truthy(header.shortRecord))
          \o rec.type
          \o data

\* Record.prototype.getBytes( first, last )
RecordGetBytes(rec, first, last) ==
    LET data == rec.bytes
        header == [Header EXCEPT !.messageBegin = JsBool(first),
                                 !.messageEnd = JsBool(last),
                                 !.TNF = rec.TNF,
                                 !.shortRecord = JsBool(Len(data) < 256)]
    IN  <<toByte(header), Len(rec.type)>>
          \o LengthField(Len(data), Truthy(header.shortRecord))
          \o rec.type
          \o data

\* Message.prototype.getBytes: the records' bytes, concatenated
RECURSIVE MessageGetBytesFrom(_, _)
MessageGetBytesFrom(records, i) ==
    IF i >= Len(records) THEN <<>>
    ELSE RecordGetBytes(records[i + 1], i = 0, i = Len(records) - 1)
           \o MessageGetBytesFrom(records, i + 1)

MessageGetBytes(records) == MessageGetBytesFrom(records, 0)

\* the result of Record.parse: returned ("ok") or thrown ("error").
\* maxRead is the largest index of `data' the call read (-1: none);
\* nan says that `consumed' is NaN
ParseThrow(err, maxRead) ==
    [status |-> "error", err |-> err, consumed |-> 0, nan |-> FALSE,
     record |-> NoRecord, maxRead |-> maxRead]

\* recordLen of Record.parse: data[ptr] for a short record, else
\* (len[0] << 24) | (len[1] << 16) | (len[2] << 8) | len[3], a signed
\* 32-bit value (the four operands share no bit, so | adds them)
RecordLen(data, offset, short) ==
    IF short THEN Read(data, offset + 2)
    ELSE ShiftLeft24(ToInt(Read(data, offset + 2)))
           + ToInt(Read(data, offset + 3)) * 65536
           + ToInt(Read(data, offset + 4)) * 256
           + ToInt(Read(data, offset + 5))

\* the truncation test of Record.parse before the payload is sliced,
\* data.length - ptr < recordLen; a comparison with undefined is false.
\* (For ptr < 0 the same comparison is written with ptr on the right, which
\* keeps every intermediate value within 32 bits.)
PayloadTruncated(data, ptr, recordLen) ==
    /\ recordLen # Undefined
    /\ IF ptr >= 0 THEN Len(data) - ptr < recordLen
       ELSE Len(data) < recordLen + ptr

\* Record.parse( data, offset )
RecordParse(data, offset) ==
    IF Len(data) - 4 < offset        \* data.length - ptr < 4
    THEN ParseThrow(Thrown("Invalid NDEF record data", <<>>, <<>>), -1)
    ELSE
      LET header == fromByte(Read(data, offset))
          typeLen == Read(data, offset + 1)
          short == Truthy(header.shortRecord)
          recordLen == RecordLen(data, offset, short)
          typeAt == offset + (IF short THEN 3 ELSE 6)
          typeCount == IF typeLen = Undefined THEN 0 ELSE typeLen
          recordType == [i \in 1..typeCount |->
                            FromCharCode(Read(data, typeAt + i - 1))]
          ptr == typeAt + typeCount
          maxRead == ptr - 1
      IN  IF PayloadTruncated(data, ptr, recordLen)
          THEN ParseThrow(Thrown("Invalid NDEF record data (len ", <<>>,
                                 <<recordLen, Len(data) - ptr>>), maxRead)
          ELSE IF \E k \in 1..Len(typeKeys) : typeKeys[k] = recordType
          THEN [status |-> "ok", err |-> NoError,
                consumed |-> IF recordLen = Undefined THEN 0
                             ELSE ptr - offset + recordLen,
                nan |-> recordLen = Undefined,
                record |-> NewFromBytes(recordType,
                              Slice(data, ptr,
                                    IF recordLen = Undefined THEN 0
                                    ELSE ptr + recordLen)),
                maxRead |-> maxRead]
          ELSE ParseThrow(Thrown("Unsupported record type: ", recordType, <<>>),
                          maxRead)

\* the while loop of Message.parse.  The loop's control depends on `offset'
\* alone, so an offset met twice means the loop never ends ("diverge": the
\* call neither returns nor throws, msg.records grows without bound).
RECURSIVE MessageParseLoop(_, _, _, _)

\* the loop of Message.parse ending at a record of an unregistered type
\* with the records decoded before it
MessageParseLoopPartial(data, offset, records, visited) ==
    IF ~(offset < Len(data))
    THEN [status |-> "ok", records |-> records, err |-> NoError]
    ELSE IF offset \in visited
    THEN [status |-> "diverge", records |-> records, err |-> NoError]
    ELSE Value({
           IF r.status = "error" /\ r.err.lit = "Unsupported record type: "
           THEN [status |-> "ok", records |-> records, err |-> NoError]
           ELSE IF r.status = "error"
           THEN [status |-> "error", records |-> <<>>, err |-> r.err]
           ELSE IF r.nan
           THEN [status |-> "ok", records |-> Append(records, r.record),
                 err |-> NoError]
           ELSE MessageParseLoop(data, offset + r.consumed,
                                 Append(records, r.record),
                                 visited \cup {offset})
           : r \in {RecordParse(data, offset)} })

MessageParseLoop(data, offset, records, visited) ==
    IF ~(offset < Len(data))
    THEN [status |-> "ok", records |-> records, err |-> NoError]
    ELSE IF offset \in visited
    THEN [status |-> "diverge", records |-> records, err |-> NoError]
    ELSE Value({
           IF r.status = "error"
           THEN [status |-> "error", records |-> <<>>, err |-> r.err]
           ELSE IF r.nan
           THEN [status |-> "ok", records |-> Append(records, r.record),
                 err |-> NoError]
           ELSE MessageParseLoop(data, offset + r.consumed,
                                 Append(records, r.record),
                                 visited \cup {offset})
           : r \in {RecordParse(data, offset)} })

\* Message.parse( data )
MessageParse(data) == MessageParseLoop(data, 0, <<>>, {})

\* ------------------------------------------------------------------------
\* ndef.js: Record and Message, JSON form
\* ------------------------------------------------------------------------

\* the hexadecimal digit of n in 0..15, in lower case, and its inverse
HexDigit(n) == IF n < 10 THEN 48 + n ELSE 87 + n

HexValue(c) ==
    IF c >= 48 /\ c <= 57 THEN c - 48
    ELSE IF c >= 97 /\ c <= 102 THEN c - 87
    ELSE c - 55

\* JSON.stringify on one character of a string: the quote and the
\* backslash get a backslash, the control characters a short escape or
\* \u00XX
JsonEscape(c) ==
    IF c = 34 THEN <<92, 34>>
    ELSE IF c = 92 THEN <<92, 92>>
    ELSE IF c = 8 THEN <<92, 98>>
    ELSE IF c = 9 THEN <<92, 116>>
    ELSE IF c = 10 THEN <<92, 110>>
    ELSE IF c = 12 THEN <<92, 102>>
    ELSE IF c = 13 THEN <<92, 114>>
    ELSE IF c < 32 THEN <<92, 117, 48, 48, HexDigit(c \div 16), HexDigit(c % 16)>>
    ELSE <<c>>

RECURSIVE JsonEscapeFrom(_, _)
JsonEscapeFrom(str, i) ==
    IF i > Len(str) THEN <<>>
    ELSE JsonEscape(str[i]) \o JsonEscapeFrom(str, i + 1)

\* JSON.stringify on a string: the escaped characters between quotes
JsonQuote(str) ==
    IF \A i \in 1..Len(str) : JsonEscape(str[i]) = <<str[i]>>
    THEN <<34>> \o str \o <<34>>
    ELSE <<34>> \o JsonEscapeFrom(str, 1) \o <<34>>

\* the character an escape letter stands for in JSON.parse
JsonUnescape(c) ==
    IF c = 98 THEN 8
    ELSE IF c = 116 THEN 9
    ELSE IF c = 110 THEN 10
    ELSE IF c = 102 THEN 12
    ELSE IF c = 114 THEN 13
    ELSE c

RECURSIVE JsonUnescapeFrom(_, _)
JsonUnescapeFrom(text, i) ==
    IF i >= Len(text) THEN <<>>
    ELSE IF text[i] # 92 THEN <<text[i]>> \o JsonUnescapeFrom(text, i + 1)
    ELSE IF text[i + 1] = 117
         THEN <<HexValue(text[i + 2]) * 4096 + HexValue(text[i + 3]) * 256
                  + HexValue(text[i + 4]) * 16 + HexValue(text[i + 5])>>
                \o JsonUnescapeFrom(text, i + 6)
    ELSE <<JsonUnescape(text[i + 1])>> \o JsonUnescapeFrom(text, i + 2)

\* JSON.parse on a string literal: the characters between the quotes,
\* escapes resolved
JsonUnquote(text) ==
    IF \A i \in 1..Len(text) : text[i] # 92
    THEN SubSeq(text, 2, Len(text) - 1)
    ELSE JsonUnescapeFrom(text, 2)

\* getJSON of TextRecord, URIRecord and AndroidApplicationRecord, with the
\* URI record giving the payload characters after the protocol index
RecordGetJSONRemainder(rec) ==
    [type |-> rec.type,
     args |-> IF rec.type = TYPE_TEXT THEN rec.text
              ELSE IF rec.type = TYPE_URI
                   THEN SubSeq(rec.bytes, 2, Len(rec.bytes))
              ELSE rec.packageName]

\* TextRecord.prototype.getJSON, URIRecord.prototype.getJSON,
\* AndroidApplicationRecord.prototype.getJSON
RecordGetJSON(rec) ==
    [type |-> rec.type,
     args |-> IF rec.type = TYPE_TEXT THEN rec.text
              ELSE IF rec.type = TYPE_URI THEN rec.URI
              ELSE rec.packageName]

\* Message.prototype.getJSON: JSON.stringify of the list of the records'
\* objects; the text is kept as the list of its members' string literals
MessageGetJSON(records) ==
    [i \in 1..Len(records) |->
        [type |-> JsonQuote(RecordGetJSON(records[i]).type),
         args |-> JsonQuote(RecordGetJSON(records[i]).args)]]

\* Record.fromJSON( obj )
RecordFromJSON(obj) ==
    IF \A k \in 1..Len(typeKeys) : typeKeys[k] # obj.type
    THEN [status |-> "error", record |-> NoRecord,
          err |-> Thrown("Type not found: ", obj.type, <<>>)]
    ELSE [status |-> "ok", record |-> NewFromString(obj.type, obj.args),
          err |-> NoError]

\* Message.fromJSON( json ): JSON.parse, then Record.fromJSON on each
\* member in order; the first throw ends the call
MessageFromJSON(text) ==
    LET list == [i \in 1..Len(text) |->
                    RecordFromJSON([type |-> JsonUnquote(text[i].type),
                                    args |-> JsonUnquote(text[i].args)])]
        bad == {i \in 1..Len(list) : list[i].status = "error"}
    IN  IF bad = {}
        THEN [status |-> "ok", records |-> [i \in 1..Len(list) |-> list[i].record],
              err |-> NoError]
        ELSE [status |-> "error", records |-> <<>>,
              err |-> list[CHOOSE i \in bad : \A j \in bad : i <= j].err]

\* ------------------------------------------------------------------------
\* comms.js: types
\* ------------------------------------------------------------------------

RESPONSE_CODE == [VERSION |-> 160, ACK |-> 161, DATA |-> 162,
                  INTERRUPT |-> 164, MESSAGE |-> 165, ERR |-> 239]

COMMS_STATE == [NULL |-> 0, LEN |-> 1, DATA |-> 2, INFO |-> 3]

COMMS_EVENT_TYPE == [NULL |-> 0, INFORMATION |-> 1, CONNECT_EVENT |-> 2,
                     DATA |-> 4, ERROR |-> 8, NDEF_MESSAGE |-> 16,
                     INTERRUPT |-> 32, ACK |-> 64]

\* a 'comms-event' object { type, data, message }.  evt.data is absent
\* ("none"), a number ("byte"), an array ("bytes") or a Message
\* ("message"); evt.message is absent or a string.
\* `from' and `at' are history fields, not part of the object: the number
\* (from 1) of the first inbound byte the event was built from, and of the
\* byte that had been consumed last when events.emit was called.
Evt(type, dataKind, byte, bytes, records, message, from, at) ==
    [type |-> type, dataKind |-> dataKind, byte |-> byte, bytes |-> bytes,
     records |-> records, message |-> message, from |-> from, at |-> at]

\* what a listener receives: the event without the history fields
Observable(e) ==
    [type |-> e.type, dataKind |-> e.dataKind, byte |-> e.byte,
     bytes |-> e.bytes, records |-> e.records, message |-> e.message]

\* ------------------------------------------------------------------------
\* comms.js: processdata
\* ------------------------------------------------------------------------

\* the module fields state, inbound, inboundCount, inboundResponse right
\* after the module is loaded, with the history of a session: the events
\* emitted so far, the bytes consumed so far (n), the state after each byte
\* (trace), and how the last call ended (halt: "no" when it returned,
\* "hung" when Message.parse never returned, "thrown" when processdata
\* threw).  s and sFrom are the local string s of the running call and the
\* number of the first byte in it.
Decoder0 ==
    [state |-> COMMS_STATE.NULL, inbound |-> <<>>, inboundCount |-> 0,
     inboundResponse |-> 0, events |-> <<>>, n |-> 0, trace |-> <<>>,
     halt |-> "no", lead |-> 0, s |-> <<>>, sFrom |-> 0]

Emit(d, e) == [d EXCEPT !.events = Append(d.events, e)]

\* InfoEventType with the ERR and INTERRUPT results exchanged
InfoEventTypeSwapped(code) ==
    IF code = RESPONSE_CODE.ACK THEN COMMS_EVENT_TYPE.ACK
    ELSE IF code = RESPONSE_CODE.ERR THEN COMMS_EVENT_TYPE.INTERRUPT
    ELSE IF code = RESPONSE_CODE.INTERRUPT THEN COMMS_EVENT_TYPE.ERROR
    ELSE Undefined

\* evt.type of case COMMS_STATE.INFO: chosen by inbound[0], else undefined
InfoEventType(code) ==
    IF code = RESPONSE_CODE.ACK THEN COMMS_EVENT_TYPE.ACK
    ELSE IF code = RESPONSE_CODE.ERR THEN COMMS_EVENT_TYPE.ERROR
    ELSE IF code = RESPONSE_CODE.INTERRUPT THEN COMMS_EVENT_TYPE.INTERRUPT
    ELSE Undefined

\* case COMMS_STATE.INFO
StepInfo(d, b) ==
    Emit([d EXCEPT !.state = COMMS_STATE.NULL],
         Evt(InfoEventType(Read(d.inbound, 0)), "byte", b, <<>>, <<>>,
             NoError, d.lead, d.n))

\* case COMMS_STATE.LEN
StepLen(d, b) ==
    LET inb == Append(d.inbound, b)
    IN  IF Len(inb) = 2
        THEN [d EXCEPT !.inboundCount = inb[1] * 256 + inb[2],
                       !.inbound = <<>>,
                       !.state = COMMS_STATE.DATA]
        ELSE [d EXCEPT !.inbound = inb]

\* CompleteMessage without the catch clause: what Message.parse throws
\* leaves processdata
CompleteMessageNoCatch(d) ==
    Value({
      IF m.status = "ok"
      THEN Emit(d, Evt(COMMS_EVENT_TYPE.NDEF_MESSAGE, "message", Undefined,
                       <<>>, m.records, NoError, d.lead, d.n))
      ELSE IF m.status = "error"
      THEN [d EXCEPT !.halt = "thrown"]
      ELSE [d EXCEPT !.halt = "hung"]
      : m \in {MessageParse(d.inbound)} })

\* the MESSAGE branch of case COMMS_STATE.DATA: try Message.parse, emit the
\* message or, in the catch clause, the error
CompleteMessage(d) ==
    Value({
      IF m.status = "ok"
      THEN Emit(d, Evt(COMMS_EVENT_TYPE.NDEF_MESSAGE, "message", Undefined,
                       <<>>, m.records, NoError, d.lead, d.n))
      ELSE IF m.status = "error"
      THEN Emit(d, Evt(COMMS_EVENT_TYPE.ERROR, "none", Undefined, <<>>, <<>>,
                       Thrown("Message read error: " \o m.err.lit,
                              m.err.chars, m.err.nums),
                       d.lead, d.n))
      ELSE [d EXCEPT !.halt = "hung"]
      : m \in {MessageParse(d.inbound)} })

\* the completion of a frame in case COMMS_STATE.DATA
CompleteData(d) ==
    IF d.inboundResponse = RESPONSE_CODE.MESSAGE
    THEN CompleteMessage(d)
    ELSE IF d.inboundResponse = RESPONSE_CODE.DATA
            \/ d.inboundResponse = RESPONSE_CODE.VERSION
    THEN Emit(d, Evt(COMMS_EVENT_TYPE.DATA, "bytes", Undefined, d.inbound,
                     <<>>, NoError, d.lead, d.n))
    ELSE [d EXCEPT !.halt = "thrown"]

\* case COMMS_STATE.DATA
StepData(d, b) ==
    LET inb == Append(d.inbound, b)
    IN  IF Len(inb) = d.inboundCount
        THEN CompleteData([d EXCEPT !.inbound = inb,
                                    !.state = COMMS_STATE.NULL])
        ELSE [d EXCEPT !.inbound = inb]

\* the character appended to s for a byte that opens no frame
InfoChar(b) == IF b >= 32 /\ b <= 128 THEN FromCharCode(b) ELSE 63

\* StepDefault where a DATA or VERSION code does not clear inbound
StepDefaultKeepInbound(d, b) ==
    IF b = RESPONSE_CODE.MESSAGE
    THEN [d EXCEPT !.state = COMMS_STATE.LEN, !.inbound = <<>>,
                   !.inboundCount = -1,
                   !.inboundResponse = RESPONSE_CODE.MESSAGE,
                   !.lead = d.n]
    ELSE IF b = RESPONSE_CODE.DATA \/ b = RESPONSE_CODE.VERSION
    THEN [d EXCEPT !.state = COMMS_STATE.DATA,
                   !.inboundCount = 2,
                   !.inboundResponse = RESPONSE_CODE.DATA,
                   !.lead = d.n]
    ELSE IF b = RESPONSE_CODE.ACK \/ b = RESPONSE_CODE.ERR
            \/ b = RESPONSE_CODE.INTERRUPT
    THEN [d EXCEPT !.state = COMMS_STATE.INFO, !.inbound = <<b>>,
                   !.lead = d.n]
    ELSE [d EXCEPT !.s = Append(d.s, InfoChar(b)),
                   !.sFrom = IF d.s = <<>> THEN d.n ELSE d.sFrom]

\* StepDefault where a VERSION code opens an info-byte frame
StepDefaultVersionInfo(d, b) ==
    IF b = RESPONSE_CODE.MESSAGE
    THEN [d EXCEPT !.state = COMMS_STATE.LEN, !.inbound = <<>>,
                   !.inboundCount = -1,
                   !.inboundResponse = RESPONSE_CODE.MESSAGE,
                   !.lead = d.n]
    ELSE IF b = RESPONSE_CODE.DATA
    THEN [d EXCEPT !.inbound = <<>>, !.state = COMMS_STATE.DATA,
                   !.inboundCount = 2,
                   !.inboundResponse = RESPONSE_CODE.DATA,
                   !.lead = d.n]
    ELSE IF b = RESPONSE_CODE.ACK \/ b = RESPONSE_CODE.ERR
            \/ b = RESPONSE_CODE.INTERRUPT \/ b = RESPONSE_CODE.VERSION
    THEN [d EXCEPT !.state = COMMS_STATE.INFO, !.inbound = <<b>>,
                   !.lead = d.n]
    ELSE [d EXCEPT !.s = Append(d.s, InfoChar(b)),
                   !.sFrom = IF d.s = <<>> THEN d.n ELSE d.sFrom]

\* default: the byte opens a frame or joins s
StepDefault(d, b) ==
    IF b = RESPONSE_CODE.MESSAGE
    THEN [d EXCEPT !.state = COMMS_STATE.LEN, !.inbound = <<>>,
                   !.inboundCount = -1,
                   !.inboundResponse = RESPONSE_CODE.MESSAGE,
                   !.lead = d.n]
    ELSE IF b = RESPONSE_CODE.DATA \/ b = RESPONSE_CODE.VERSION
    THEN [d EXCEPT !.inbound = <<>>, !.state = COMMS_STATE.DATA,
                   !.inboundCount = 2,
                   !.inboundResponse = RESPONSE_CODE.DATA,
                   !.lead = d.n]
    ELSE IF b = RESPONSE_CODE.ACK \/ b = RESPONSE_CODE.ERR
            \/ b = RESPONSE_CODE.INTERRUPT
    THEN [d EXCEPT !.state = COMMS_STATE.INFO, !.inbound = <<b>>,
                   !.lead = d.n]
    ELSE [d EXCEPT !.s = Append(d.s, InfoChar(b)),
                   !.sFrom = IF d.s = <<>> THEN d.n ELSE d.sFrom]

\* the switch statement, for the byte b
Switch(d, b) ==
    IF d.state = COMMS_STATE.INFO THEN StepInfo(d, b)
    ELSE IF d.state = COMMS_STATE.LEN THEN StepLen(d, b)
    ELSE IF d.state = COMMS_STATE.DATA THEN StepData(d, b)
    ELSE StepDefault(d, b)

\* one turn of the for loop: byte number d.n + 1 of the session
Step(d, b) ==
    Value({[d1 EXCEPT !.trace = Append(d1.trace, d1.state)]
           : d1 \in {Switch([d EXCEPT !.n = d.n + 1], b)}})

\* the statement after the loop: s, if not empty, leaves as one
\* INFORMATION event
Flush(d) ==
    IF Len(d.s) > 0
    THEN Emit([d EXCEPT !.s = <<>>],
              Evt(COMMS_EVENT_TYPE.INFORMATION, "none", Undefined, <<>>, <<>>,
                  Thrown("", d.s, <<>>), d.sFrom, d.n))
    ELSE d

\* the for loop from data[i] on; it is left early when the body does not
\* return control (Message.parse diverges or processdata throws)
RECURSIVE ProcessLoop(_, _, _)
ProcessLoop(d, data, i) ==
    IF d.halt # "no" THEN d
    ELSE IF i >= Len(data) THEN Flush(d)
    ELSE Value({ProcessLoop(d1, data, i + 1) : d1 \in {Step(d, data[i + 1])}})

\* processdata( data ) on the decoder d
ProcessData(d, data) == ProcessLoop([d EXCEPT !.s = <<>>, !.sFrom = 0], data, 0)

\* ------------------------------------------------------------------------
\* comms.js: senddata
\* ------------------------------------------------------------------------

\* the escape loop of senddata with both marker bytes escaped
StuffBothMarkers(b) == IF b = 74 \/ b = 229 THEN <<229, b>> ELSE <<b>>

\* the escape loop of senddata with 0xE5 pushed in place of a byte 0x4A
StuffInPlace(b) == IF b = 74 THEN <<229>> ELSE <<b>>

\* the body of the escape loop of senddata: what is pushed for data[i]
Stuff(b) == IF b = 74 THEN <<229, b>> ELSE <<b>>

RECURSIVE StuffFrom(_, _)
StuffFrom(data, i) ==
    IF i > Len(data) THEN <<>>
    ELSE Stuff(data[i]) \o StuffFrom(data, i + 1)

\* the array senddata hands to port.write
SendBytes(data) == <<74, 229>> \o StuffFrom(data, 1)

\* the array sendMessage gives to comms.send: SET_NFC_MESSAGE, the length
\* of the message bytes as two bytes, the bytes
SetMessageCommand(message) ==
    <<64, Len(MessageGetBytes(message)) \div 256,
      Len(MessageGetBytes(message)) % 256>>
      \o MessageGetBytes(message)

\* a CONNECT_EVENT event with a message
ConnectEvent(text) ==
    Evt(COMMS_EVENT_TYPE.CONNECT_EVENT, "none", Undefined, <<>>, <<>>,
        Thrown(text, <<>>, <<>>), 0, 0)

\* ------------------------------------------------------------------------
\* bounds and inputs
\* ------------------------------------------------------------------------

\* the longest inbound line of arbitrary bytes
MaxRaw == 3

\* the largest number of frames on an inbound line made of frames
MaxFrames == 2

\* the largest number of records in a message built for serialization
MaxRecords == 2

\* the bytes arbitrary lines are made of: every response code, a
\* printable byte, and 0 and 1 (not printable; length bytes of a frame)
RawBytes == {0, 1, 65,
             RESPONSE_CODE.VERSION, RESPONSE_CODE.ACK, RESPONSE_CODE.DATA,
             RESPONSE_CODE.INTERRUPT, RESPONSE_CODE.MESSAGE, RESPONSE_CODE.ERR}

\* all sequences over S of length 0..n
RECURSIVE SeqsUpTo(_, _)
SeqsUpTo(S, n) ==
    IF n = 0 THEN {<<>>}
    ELSE LET shorter == SeqsUpTo(S, n - 1)
         IN  shorter \cup {Append(q, x) : q \in shorter, x \in S}

\* a MESSAGE frame as the board sends it: the response code, the payload
\* length as two bytes, high byte first, then the payload
MessageFrame(payload) ==
    <<RESPONSE_CODE.MESSAGE, Len(payload) \div 256, Len(payload) % 256>>
      \o payload

\* a sequence of c repeated n times
Repeat(c, n) == [i \in 1..n |-> c]

\* what the board may put on the line in one go: a run of stray bytes,
\* info-byte frames (one whose info byte is itself a response code), a DATA
\* and a VERSION frame, and MESSAGE frames whose payload is a well-formed
\* message, is no record at all ("hi"), has a record of an unregistered
\* type between two good ones, is empty, or holds a long-form record whose
\* length field has the top bit set
FrameCatalogue ==
    { <<65, 0, 66>>,
      <<RESPONSE_CODE.ACK, 7>>,
      <<RESPONSE_CODE.INTERRUPT, RESPONSE_CODE.ACK>>,
      <<RESPONSE_CODE.ERR, 3>>,
      <<RESPONSE_CODE.DATA, 1, 2>>,
      <<RESPONSE_CODE.VERSION, RESPONSE_CODE.MESSAGE, 0>>,
      MessageFrame(MessageGetBytes(<<TextRecordReset(<<65>>),
                                     URIRecordReset(<<116, 101, 108, 58, 49>>)>>)),
      MessageFrame(<<104, 105>>),
      MessageFrame(<<145, 1, 0, 85>> \o <<17, 1, 0, 88>> \o <<81, 1, 0, 84>>),
      MessageFrame(<<>>),
      MessageFrame(<<1, 1, 255, 255, 255, 249, 84>>) }

\* the concatenations of 1..n catalogue entries
RECURSIVE FrameLines(_)
FrameLines(n) ==
    IF n = 0 THEN {<<>>}
    ELSE LET shorter == FrameLines(n - 1)
         IN  shorter \cup {q \o f : q \in shorter, f \in FrameCatalogue}

\* the inbound lines of the model
Lines == SeqsUpTo(RawBytes, MaxRaw) \cup FrameLines(MaxFrames)

\* strings of byte-valued characters given to the record constructors:
\* empty, two characters (one above 127), "hello", the characters JSON
\* escapes (quote, backslash, line feed, 0x01) before '/' and 'u', a URI
\* with a table prefix, and
\* strings that put a payload just below, at and above 0x100 bytes
HELLO == <<104, 101, 108, 108, 111>>

Strings ==
    { <<>>, <<72, 233>>, HELLO, <<34, 92, 10, 1, 47, 117>>,
      <<104, 116, 116, 112, 58, 47, 47, 119, 119, 119, 46, 97>>,
      Repeat(65, 253), Repeat(66, 256) }

RecordTypes == {TYPE_TEXT, TYPE_URI, TYPE_AAR}

\* the messages built by the string constructors: up to MaxRecords records
\* of any string, and one record more when every string is "hello"
Messages ==
    SeqsUpTo({NewFromString(ty, str) : ty \in RecordTypes, str \in Strings},
             MaxRecords)
    \cup SeqsUpTo({NewFromString(ty, HELLO) : ty \in RecordTypes},
                  MaxRecords + 1)

\* raw buffers handed to Record.parse and Message.parse: a header byte
\* (long form, short form, short form with both message bits), a type
\* length, a 1-byte or a 4-byte length field (zero, small, top bit set),
\* a type character, a payload -- and every prefix of such a buffer
FullBuffers ==
    { <<h, tl>> \o lf \o ty \o pay :
        h \in {1, 17, 209}, tl \in {0, 1},
        lf \in { <<0>>, <<2>>, <<0, 0, 0, 0>>, <<0, 0, 0, 2>>,
                 <<128, 0, 0, 1>>, <<255, 255, 255, 249>> },
        ty \in { <<84>>, <<88>> },
        pay \in { <<>>, <<2, 101>>, <<2, 101, 110, 65>> } }

RawBuffers == UNION { { SubSeq(b, 1, k) : k \in 0..Len(b) } : b \in FullBuffers }

\* one well-formed short record with an empty payload, its header byte
\* carrying each of the eight TNF values, for each registered type
TaggedBuffers ==
    { <<16 + tnf, Len(ty), 0>> \o ty : tnf \in 0..7, ty \in RecordTypes }

\* the buffers handed to Record.parse and Message.parse
ReceivedBuffers == RawBuffers \cup TaggedBuffers

\* ------------------------------------------------------------------------
\* state
\* ------------------------------------------------------------------------

VARIABLES
    line,             \* the bytes the board has sent on the serial line
    fed,              \* how many of them processdata has consumed
    state,            \* comms.js: state
    inbound,          \* comms.js: inbound
    inboundCount,     \* comms.js: inboundCount
    inboundResponse,  \* comms.js: inboundResponse
    events,           \* the 'comms-event' objects emitted, in order
    trace,            \* history: state after each consumed byte
    lead,             \* history: number of the byte that opened the frame
    halt,             \* "no", or how the last processdata call failed
    bytewise,         \* history: every chunk so far was a single byte
    msg,              \* ndef.js: a Message's records, built by constructors
    wire,             \* a byte buffer: msg serialized, or a raw buffer
    parsed,           \* the outcome of Message.parse( wire )
    rslt,             \* the outcome of Record.parse( wire, 0 )
    cpc,              \* what has been done with msg and wire
    json,             \* the text msg.getJSON() returned
    back,             \* the outcome of Message.fromJSON( json )
    rewire,           \* the bytes of the records decoded from wire
    arg,              \* the argument given to a constructor or to fromByte
    rec,              \* the record the constructor returned
    rec2,             \* the record decoded from the payload of rec
    hdr,              \* the Header read from a byte, written, and read again
    rpc,              \* what has been done with arg
    port,             \* comms.js: port
    written,          \* the last array handed to port.write
    sending,          \* history: the senddata call that wrote `written'
    live,             \* history: SerialPort objects constructed, not closed
    listing,          \* SerialPort.list calls whose callback is pending
    outcome           \* how the last sendMessage call ended

decoderVars == <<line, fed, state, inbound, inboundCount, inboundResponse,
                 events, trace, lead, halt, bytewise>>

codecVars == <<msg, wire, parsed, rslt, cpc, json, back, rewire>>

recordVars == <<arg, rec, rec2, hdr, rpc>>

linkVars == <<port, written, sending, live, listing, outcome>>

vars == <<line, fed, state, inbound, inboundCount, inboundResponse,
          events, trace, lead, halt, bytewise, msg, wire, parsed, rslt, cpc,
          json, back, rewire, arg, rec, rec2, hdr, rpc, port, written,
          sending, live, listing, outcome>>

\* Message.fromJSON not called
NoBack == [status |-> "none", records |-> <<>>, err |-> NoError]

\* no argument
NoArg == [kind |-> "none", type |-> <<>>, val |-> <<>>]

\* port = null
NULL == [path |-> 0, isOpen |-> FALSE, handlers |-> FALSE]

\* port.write not called
NoWrite == <<-1>>

\* senddata has not written
NoSend == [data |-> <<>>, open |-> FALSE]

\* sendMessage not called
NoCall == [result |-> "none", hadPort |-> FALSE, wrote |-> FALSE]

NoParse == [status |-> "none", records |-> <<>>, err |-> NoError]

NoResult == [status |-> "none", err |-> NoError, consumed |-> 0,
             nan |-> FALSE, record |-> NoRecord, maxRead |-> -1]

\* comms.js as loaded: the fields of lines 690-695, nothing emitted
DecoderInit ==
    /\ fed = 0
    /\ state = COMMS_STATE.NULL
    /\ inbound = <<>>
    /\ inboundCount = 0
    /\ inboundResponse = 0
    /\ events = <<>>
    /\ trace = <<>>
    /\ lead = 0
    /\ halt = "no"
    /\ bytewise = TRUE

CodecIdle ==
    /\ msg = <<>>
    /\ wire = <<>>
    /\ parsed = NoParse
    /\ rslt = NoResult
    /\ cpc = "idle"
    /\ json = <<>>
    /\ back = NoBack
    /\ rewire = <<>>

\* no constructor called
RecordIdle ==
    /\ arg = NoArg
    /\ rec = NoRecord
    /\ rec2 = NoRecord
    /\ hdr = <<>>
    /\ rpc = "idle"

\* comms.js as loaded: port is null (line 690), nothing written
LinkIdle ==
    /\ port = NULL
    /\ written = NoWrite
    /\ sending = NoSend
    /\ live = 0
    /\ listing = 0
    /\ outcome = NoCall

\* the decoder of the current state, as ProcessData takes it
Decoder ==
    [state |-> state, inbound |-> inbound, inboundCount |-> inboundCount,
     inboundResponse |-> inboundResponse, events |-> events, n |-> fed,
     trace |-> trace, halt |-> halt, lead |-> lead, s |-> <<>>, sFrom |-> 0]

\* ------------------------------------------------------------------------
\* the frame layer: the port's 'data' callback
\* ------------------------------------------------------------------------

Init ==
    /\ line \in Lines
    /\ DecoderInit
    /\ CodecIdle
    /\ RecordIdle
    /\ LinkIdle

\* the serial port delivers the next k bytes of the line as one chunk:
\* processdata( data )
processdata(k) ==
    /\ halt = "no"
    /\ k \in 1..(Len(line) - fed)
    /\ \E d \in {ProcessData(Decoder, SubSeq(line, fed + 1, fed + k))} :
           /\ state' = d.state
           /\ inbound' = d.inbound
           /\ inboundCount' = d.inboundCount
           /\ inboundResponse' = d.inboundResponse
           /\ events' = d.events
           /\ fed' = d.n
           /\ trace' = d.trace
           /\ lead' = d.lead
           /\ halt' = d.halt
    /\ bytewise' = (bytewise /\ k = 1)
    /\ UNCHANGED line
    /\ UNCHANGED <<codecVars, recordVars, linkVars>>

Next == \E k \in 1..Len(line) : processdata(k)

Spec == Init /\ [][Next]_vars

\* ------------------------------------------------------------------------
\* the codec: constructors, getBytes, parse
\* ------------------------------------------------------------------------

\* a message built by the string constructors, or a raw buffer received
CodecInit ==
    /\ line = <<>>
    /\ DecoderInit
    /\ RecordIdle
    /\ LinkIdle
    /\ parsed = NoParse
    /\ rslt = NoResult
    /\ json = <<>>
    /\ back = NoBack
    /\ rewire = <<>>
    /\ \/ msg \in Messages /\ wire = <<>> /\ cpc = "built"
       \/ msg = <<>> /\ wire \in ReceivedBuffers /\ cpc = "raw"

\* wire = msg.getBytes()
getBytes ==
    /\ cpc = "built"
    /\ wire' = MessageGetBytes(msg)
    /\ cpc' = "serialized"
    /\ UNCHANGED <<msg, parsed, rslt, json, back, rewire>>
    /\ UNCHANGED <<decoderVars, recordVars, linkVars>>

\* Message.parse( wire )
MessageParseCall ==
    /\ cpc \in {"serialized", "raw"}
    /\ parsed' = MessageParse(wire)
    /\ cpc' = IF cpc = "serialized" THEN "reparsed" ELSE "parsed"
    /\ UNCHANGED <<msg, wire, rslt, json, back, rewire>>
    /\ UNCHANGED <<decoderVars, recordVars, linkVars>>

\* Record.parse( wire, 0 )
RecordParseCall ==
    /\ cpc = "raw"
    /\ rslt' = RecordParse(wire, 0)
    /\ cpc' = "record"
    /\ UNCHANGED <<msg, wire, parsed, json, back, rewire>>
    /\ UNCHANGED <<decoderVars, recordVars, linkVars>>

\* rewire = the message Message.parse returned .getBytes()
getBytesParsed ==
    /\ cpc = "parsed"
    /\ parsed.status = "ok"
    /\ rewire' = MessageGetBytes(parsed.records)
    /\ cpc' = "reserialized"
    /\ UNCHANGED <<msg, wire, parsed, rslt, json, back>>
    /\ UNCHANGED <<decoderVars, recordVars, linkVars>>

\* json = msg.getJSON()
getJSON ==
    /\ cpc = "built"
    /\ json' = MessageGetJSON(msg)
    /\ cpc' = "json"
    /\ UNCHANGED <<msg, wire, parsed, rslt, back, rewire>>
    /\ UNCHANGED <<decoderVars, recordVars, linkVars>>

\* back = Message.fromJSON( json )
fromJSON ==
    /\ cpc = "json"
    /\ back' = MessageFromJSON(json)
    /\ cpc' = "fromjson"
    /\ UNCHANGED <<msg, wire, parsed, rslt, json, rewire>>
    /\ UNCHANGED <<decoderVars, recordVars, linkVars>>

CodecNext ==
    \/ getBytes
    \/ getJSON
    \/ fromJSON
    \/ MessageParseCall
    \/ RecordParseCall
    \/ getBytesParsed

CodecSpec == CodecInit /\ [][CodecNext]_vars

\* ------------------------------------------------------------------------
\* the record types: constructors, Header
\* ------------------------------------------------------------------------

\* the longest payload handed to a record constructor as an array
MaxPayload == 4

\* URIs given to the URIRecord constructor (and, as plain strings, to the
\* other two): none, no table prefix, a prefix in lower and in upper case,
\* a prefix that differs from "http://www." in the place of its '.', and
\* prefixes that themselves begin with a shorter table entry
URIStrings ==
    { <<>>,
      <<120, 121, 122>>,                                    \* "xyz"
      <<116, 101, 108, 58, 49>>,                            \* "tel:1"
      <<84, 69, 76, 58, 49>>,                               \* "TEL:1"
      <<104, 116, 116, 112, 58, 47, 47, 119, 119, 119, 46, 97>>,
                                                            \* "http://www.a"
      <<104, 116, 116, 112, 58, 47, 47, 119, 119, 119, 120, 97>>,
                                                            \* "http://wwwxa"
      <<104, 116, 116, 112, 115, 58, 47, 47, 97>>,          \* "https://a"
      <<102, 116, 112, 58, 47, 47, 102, 116, 112, 46, 97>>, \* "ftp://ftp.a"
      <<117, 114, 110, 58, 120>>,                           \* "urn:x"
      <<117, 114, 110, 58, 110, 102, 99, 58, 97>>,          \* "urn:nfc:a"
      <<117, 114, 110, 58, 101, 112, 99, 58, 105, 100, 58, 97>>,
                                                            \* "urn:epc:id:a"
      <<117, 110, 100, 101, 102, 105, 110, 101, 100, 120>> }
                                                            \* "undefinedx"

\* payload bytes: protocol indices 0, 1, 35 and the out-of-table 36 and
\* 255, and a letter
PayloadBytes == {0, 1, 35, 36, 97, 255}

\* the arguments of the model: a string or a byte array for a record
\* constructor, a byte for Header.fromByte
RecordArgs ==
    {[kind |-> "string", type |-> ty, val |-> str] :
        ty \in RecordTypes, str \in URIStrings}
    \cup {[kind |-> "array", type |-> ty, val |-> data] :
        ty \in RecordTypes, data \in SeqsUpTo(PayloadBytes, MaxPayload)}
    \cup {[kind |-> "byte", type |-> <<>>, val |-> <<b>>] : b \in 0..255}

RecordInit ==
    /\ line = <<>>
    /\ DecoderInit
    /\ CodecIdle
    /\ LinkIdle
    /\ arg \in RecordArgs
    /\ rec = NoRecord
    /\ rec2 = NoRecord
    /\ hdr = <<>>
    /\ rpc = "start"

\* rec = new TextRecord( str ), new URIRecord( str ) or
\* new AndroidApplicationRecord( str )
Construct ==
    /\ rpc = "start"
    /\ arg.kind = "string"
    /\ rec' = NewFromString(arg.type, arg.val)
    /\ rpc' = "built"
    /\ UNCHANGED <<arg, rec2, hdr>>
    /\ UNCHANGED <<decoderVars, codecVars, linkVars>>

\* rec = new TextRecord( data ), new URIRecord( data ) or
\* new AndroidApplicationRecord( data ), data an array of bytes
Decode ==
    /\ rpc = "start"
    /\ arg.kind = "array"
    /\ rec' = NewFromBytes(arg.type, arg.val)
    /\ rpc' = "decoded"
    /\ UNCHANGED <<arg, rec2, hdr>>
    /\ UNCHANGED <<decoderVars, codecVars, linkVars>>

\* rec2 = a record of the type of rec, decoded from the payload of rec
Redecode ==
    /\ rpc = "built"
    /\ rec2' = NewFromBytes(rec.type, rec.bytes)
    /\ rpc' = "redecoded"
    /\ UNCHANGED <<arg, rec, hdr>>
    /\ UNCHANGED <<decoderVars, codecVars, linkVars>>

\* new Header( b ): of the argument byte, then of the byte written from
\* the first header
fromByteCall ==
    /\ \/ /\ rpc = "start"
          /\ arg.kind = "byte"
          /\ hdr' = <<fromByte(arg.val[1])>>
          /\ rpc' = "read"
       \/ /\ rpc = "written"
          /\ hdr' = Append(hdr, fromByte(hdr[2]))
          /\ rpc' = "reread"
    /\ UNCHANGED <<arg, rec, rec2>>
    /\ UNCHANGED <<decoderVars, codecVars, linkVars>>

\* header.toByte()
toByteCall ==
    /\ rpc = "read"
    /\ hdr' = Append(hdr, toByte(hdr[1]))
    /\ rpc' = "written"
    /\ UNCHANGED <<arg, rec, rec2>>
    /\ UNCHANGED <<decoderVars, codecVars, linkVars>>

RecordNext == Construct \/ Decode \/ Redecode \/ fromByteCall \/ toByteCall

RecordSpec == RecordInit /\ [][RecordNext]_vars

\* ------------------------------------------------------------------------
\* the serial link: connectport, the port's callbacks, senddata
\* ------------------------------------------------------------------------

\* the longest data array given to senddata
MaxSend == 3

\* the most events emitted on the link
MaxLinkEvents == 3

\* the bytes of the data given to senddata: the two marker bytes and
\* another
SendAlphabet == {74, 229, 1}

\* the port names given to connectport
Paths == {1, 2}

\* no port name: connect() without an argument, no matching port listed
NoPath == 0

\* the most SerialPort.list callbacks pending
MaxPending == 1

\* the messages given to sendMessage: empty, one text record, and one
\* record whose bytes are 0x4A long
OutMessages ==
    { <<>>, <<TextRecordReset(HELLO)>>,
      <<AndroidApplicationRecordReset(Repeat(97, 56))>> }

LinkInit ==
    /\ line = <<>>
    /\ DecoderInit
    /\ CodecIdle
    /\ RecordIdle
    /\ LinkIdle

\* connectport without the test of port: a new SerialPort takes the place
\* of the one there is
connectportReplace(path, throws) ==
    /\ IF throws
       THEN /\ Len(events) < MaxLinkEvents
            /\ events' = Append(events, ConnectEvent("ex"))
            /\ UNCHANGED <<port, live>>
       ELSE /\ port' = [path |-> path, isOpen |-> FALSE, handlers |-> FALSE]
            /\ live' = live + 1
            /\ UNCHANGED events
    /\ UNCHANGED <<written, sending, outcome>>
    /\ UNCHANGED <<line, fed, state, inbound, inboundCount, inboundResponse,
                   trace, lead, halt, bytewise>>
    /\ UNCHANGED <<codecVars, recordVars>>

\* connectport( path ); the SerialPort constructor returns or throws
connectport(path, throws) ==
    /\ IF port # NULL
       THEN /\ Len(events) < MaxLinkEvents
            /\ events' = Append(events,
                                ConnectEvent("Already connected, call close"))
            /\ UNCHANGED <<port, live>>
       ELSE IF throws
       THEN /\ Len(events) < MaxLinkEvents
            /\ events' = Append(events, ConnectEvent("ex"))
            /\ UNCHANGED <<port, live>>
       ELSE /\ port' = [path |-> path, isOpen |-> FALSE, handlers |-> FALSE]
            /\ live' = live + 1
            /\ UNCHANGED events
    /\ UNCHANGED <<written, sending, outcome>>
    /\ UNCHANGED <<line, fed, state, inbound, inboundCount, inboundResponse,
                   trace, lead, halt, bytewise>>
    /\ UNCHANGED <<codecVars, recordVars>>

\* connect( use_port ): with a port name connectport is called at once,
\* without one SerialPort.list is called and its callback is pending
connect(use_port, throws) ==
    IF use_port # NoPath
    THEN /\ connectport(use_port, throws)
         /\ UNCHANGED listing
    ELSE /\ listing < MaxPending
         /\ listing' = listing + 1
         /\ UNCHANGED <<port, written, sending, live, outcome>>
         /\ UNCHANGED <<decoderVars, codecVars, recordVars>>

\* the callback of SerialPort.list: pname is the comName of the last port
\* whose pnpId matches, or null
portlist(pname, throws) ==
    /\ listing > 0
    /\ listing' = listing - 1
    /\ IF pname = NoPath
       THEN /\ Len(events) < MaxLinkEvents
            /\ events' = Append(events, ConnectEvent("Port not found"))
            /\ UNCHANGED <<port, written, sending, live, outcome>>
            /\ UNCHANGED <<line, fed, state, inbound, inboundCount,
                           inboundResponse, trace, lead, halt, bytewise>>
            /\ UNCHANGED <<codecVars, recordVars>>
       ELSE connectport(pname, throws)

\* exports.connected as sendMessage reads it: the function itself, not its
\* result, and a function is true in a condition
connected == TRUE

\* sendMessage( message ) of nfc-client.js: the test of comms.connected,
\* then comms.send of the command byte, the length and the bytes
sendMessage(message) ==
    /\ IF ~connected
       THEN /\ outcome' = [result |-> "Not connected", hadPort |-> port # NULL,
                           wrote |-> FALSE]
            /\ UNCHANGED <<written, sending>>
       ELSE /\ outcome' = [result |-> "returned", hadPort |-> port # NULL,
                           wrote |-> port # NULL]
            /\ IF port = NULL
               THEN UNCHANGED <<written, sending>>
               ELSE /\ written' = SendBytes(SetMessageCommand(message))
                    /\ sending' = [data |-> SetMessageCommand(message),
                                   open |-> port.isOpen]
    /\ UNCHANGED <<port, live, listing>>
    /\ UNCHANGED <<decoderVars, codecVars, recordVars>>

\* the "open" callback of connectport
portopen ==
    /\ port # NULL
    /\ ~port.isOpen
    /\ Len(events) < MaxLinkEvents
    /\ port' = [port EXCEPT !.isOpen = TRUE, !.handlers = TRUE]
    /\ events' = Append(events, ConnectEvent("Connected"))
    /\ UNCHANGED <<written, sending, live, listing, outcome>>
    /\ UNCHANGED <<line, fed, state, inbound, inboundCount, inboundResponse,
                   trace, lead, halt, bytewise>>
    /\ UNCHANGED <<codecVars, recordVars>>

\* portclosed(), the 'close' callback
portclosed ==
    /\ port # NULL
    /\ port.handlers
    /\ Len(events) < MaxLinkEvents
    /\ port' = NULL
    /\ live' = live - 1
    /\ events' = Append(events, ConnectEvent("Closed"))
    /\ UNCHANGED <<written, sending, listing, outcome>>
    /\ UNCHANGED <<line, fed, state, inbound, inboundCount, inboundResponse,
                   trace, lead, halt, bytewise>>
    /\ UNCHANGED <<codecVars, recordVars>>

\* senddata( data )
senddata(data) ==
    /\ IF port = NULL
       THEN UNCHANGED <<written, sending>>
       ELSE /\ written' = SendBytes(data)
            /\ sending' = [data |-> data, open |-> port.isOpen]
    /\ UNCHANGED <<port, live, listing, outcome>>
    /\ UNCHANGED <<decoderVars, codecVars, recordVars>>

LinkNext ==
    \/ \E path \in Paths, throws \in BOOLEAN : connect(path, throws)
    \/ portopen
    \/ portclosed
    \/ \E data \in SeqsUpTo(SendAlphabet, MaxSend) : senddata(data)

LinkSpec == LinkInit /\ [][LinkNext]_vars

\* the client: connect with or without a port name, the callbacks, and
\* sendMessage
ClientNext ==
    \/ \E use_port \in Paths \cup {NoPath}, throws \in BOOLEAN :
          connect(use_port, throws)
    \/ \E pname \in Paths \cup {NoPath}, throws \in BOOLEAN :
          portlist(pname, throws)
    \/ portopen
    \/ portclosed
    \/ \E message \in OutMessages : sendMessage(message)

ClientSpec == LinkInit /\ [][ClientNext]_vars

\* ------------------------------------------------------------------------
\* properties of the frame layer (Spec)
\* ------------------------------------------------------------------------

\* the decoder state in which byte number i was processed
StateBefore(i) == IF i = 1 THEN COMMS_STATE.NULL ELSE trace[i - 1]

\* byte number i was processed in Idle and is the response code `code'
IsLead(i, code) == StateBefore(i) = COMMS_STATE.NULL /\ line[i] = code

ResponseCodes == {RESPONSE_CODE.VERSION, RESPONSE_CODE.ACK, RESPONSE_CODE.DATA,
                  RESPONSE_CODE.INTERRUPT, RESPONSE_CODE.MESSAGE,
                  RESPONSE_CODE.ERR}

\* the emitted events of the frame opened by byte number i
FrameEventsOf(i) ==
    {k \in 1..Len(events) :
        events[k].from = i /\ events[k].type # COMMS_EVENT_TYPE.INFORMATION}

\* the length a MESSAGE frame opened by byte number i declares
DeclaredLength(i) == line[i + 1] * 256 + line[i + 2]

\* the events as listeners saw them
Observed(evs) == [k \in 1..Len(evs) |-> Observable(evs[k])]

\* C1: however the bytes consumed so far were split into chunks, the
\* events emitted (type, data, message) are those that one processdata call
\* on all of these bytes, starting from Idle, emits.
C1_ChunkingInvariance ==
    Observed(events)
      = Observed(ProcessData(Decoder0, SubSeq(line, 1, fed)).events)

\* C2: for a MESSAGE frame declaring length L (0 included), once the L
\* payload bytes after the length field have been consumed the decoder has
\* emitted exactly one event for the frame, an NDEF_MESSAGE or an ERROR,
\* and was Idle after the frame's last byte.
C2_FrameCompletion ==
    \A i \in 1..fed :
        (IsLead(i, RESPONSE_CODE.MESSAGE) /\ i + 2 <= fed
           /\ i + 2 + DeclaredLength(i) <= fed)
        => /\ Cardinality(FrameEventsOf(i)) = 1
           /\ \A k \in FrameEventsOf(i) :
                 events[k].type \in {COMMS_EVENT_TYPE.NDEF_MESSAGE,
                                     COMMS_EVENT_TYPE.ERROR}
           /\ trace[i + 2 + DeclaredLength(i)] = COMMS_STATE.NULL

\* the MESSAGE frame opened by byte number i is complete and Message.parse
\* throws on its payload
PayloadOf(i) == SubSeq(line, i + 3, i + 2 + DeclaredLength(i))

ParseFails(i) ==
    /\ IsLead(i, RESPONSE_CODE.MESSAGE)
    /\ i + 2 <= fed
    /\ DeclaredLength(i) >= 1
    /\ i + 2 + DeclaredLength(i) <= fed
    /\ MessageParse(PayloadOf(i)).status = "error"

\* the frame events built from bytes after byte number j, as listeners saw
\* them
FrameEventsAfter(evs, j) ==
    LET later(e) == e.from > j /\ e.type # COMMS_EVENT_TYPE.INFORMATION
    IN  Observed(SelectSeq(evs, later))

C7_NoEarlyEvents ==
    /\ state \in {COMMS_STATE.LEN, COMMS_STATE.DATA, COMMS_STATE.INFO}
         => FrameEventsOf(lead) = {}
    /\ \A i \in 1..fed :
          (bytewise /\ IsLead(i, RESPONSE_CODE.MESSAGE) /\ i + 2 <= fed
             /\ DeclaredLength(i) >= 1)
          => LET last == i + 2 + DeclaredLength(i)
             IN  /\ \A k \in 1..Len(events) :
                       ~(events[k].at >= i /\ events[k].at < last)
                 /\ last <= fed
                      => /\ Cardinality({k \in 1..Len(events) :
                                            events[k].at = last}) = 1
                         /\ \A k \in 1..Len(events) :
                               events[k].at = last
                                 => events[k].type
                                      \in {COMMS_EVENT_TYPE.NDEF_MESSAGE,
                                           COMMS_EVENT_TYPE.ERROR}

\* C8: every INFORMATION event carries one run of stray bytes (consecutive
\* bytes processed in Idle, none a response code), and it is emitted before
\* every event of a frame that starts after the run: no event of a later
\* frame stands before it in the order of emission.
C8_InformationOrdering ==
    \A k \in 1..Len(events) :
        events[k].type = COMMS_EVENT_TYPE.INFORMATION
        => /\ \A p \in events[k].from
                        ..(events[k].from + Len(events[k].message.chars) - 1) :
                 /\ StateBefore(p) = COMMS_STATE.NULL
                 /\ line[p] \notin ResponseCodes
           /\ \A j \in 1..(k - 1) :
                 events[j].type # COMMS_EVENT_TYPE.INFORMATION
                   => events[j].from < events[k].from

\* the event type the info-byte frame opened by `code' must produce
ExpectedInfoType(code) ==
    CASE code = RESPONSE_CODE.ACK -> COMMS_EVENT_TYPE.ACK
      [] code = RESPONSE_CODE.ERR -> COMMS_EVENT_TYPE.ERROR
      [] code = RESPONSE_CODE.INTERRUPT -> COMMS_EVENT_TYPE.INTERRUPT

\* C9: an ACK, ERROR or INTERRUPT code processed in Idle and the byte d
\* after it (any byte) yield exactly one event for the frame, of type ACK,
\* ERROR or INTERRUPT respectively, with data d, emitted at d and not
\* before; the decoder is Idle after d.
C9_InfoByteFrames ==
    \A i \in 1..fed :
        (StateBefore(i) = COMMS_STATE.NULL
           /\ line[i] \in {RESPONSE_CODE.ACK, RESPONSE_CODE.ERR,
                           RESPONSE_CODE.INTERRUPT})
        => /\ \A k \in FrameEventsOf(i) : events[k].at = i + 1
           /\ i + 1 <= fed
                => /\ Cardinality(FrameEventsOf(i)) = 1
                   /\ \A k \in FrameEventsOf(i) :
                         /\ events[k].type = ExpectedInfoType(line[i])
                         /\ events[k].dataKind = "byte"
                         /\ events[k].byte = line[i + 1]
                   /\ trace[i + 1] = COMMS_STATE.NULL

\* C9 witness: an INTERRUPT frame whose info byte is itself a response
\* code has been decoded, and so has an ERROR frame
C9_Witness ==
    /\ \E k \in 1..Len(events) :
          /\ events[k].type = COMMS_EVENT_TYPE.INTERRUPT
          /\ events[k].byte \in ResponseCodes
    /\ \E k \in 1..Len(events) :
          /\ events[k].type = COMMS_EVENT_TYPE.ERROR
          /\ events[k].dataKind = "byte"

Malformed == <<-1>>

\* the type names of the records of buffer w from offset off on: a record
\* is a header byte, a type length, a 1-byte length when header bit 0x10
\* is set and a 4-byte unsigned length otherwise, the type name and the
\* payload; it needs at least 4 bytes, and its fields lie within w
RECURSIVE WireRecordTypes(_, _)
WireRecordTypes(w, off) ==
    IF off >= Len(w) THEN <<>>
    ELSE IF Len(w) - off < 4 THEN <<Malformed>>
    ELSE LET hs == IF Bit(w[off + 1], 4) = 1 THEN 3 ELSE 6
             tl == w[off + 2]
         IN  IF Len(w) - off < hs + tl THEN <<Malformed>>
             ELSE IF hs = 6 /\ w[off + 3] >= 128 THEN <<Malformed>>
             ELSE LET len == IF hs = 3 THEN w[off + 3]
                             ELSE w[off + 3] * 16777216 + w[off + 4] * 65536
                                    + w[off + 5] * 256 + w[off + 6]
                  IN  IF len > Len(w) - off - hs - tl THEN <<Malformed>>
                      ELSE <<SubSeq(w, off + hs + 1, off + hs + tl)>>
                             \o WireRecordTypes(w, off + hs + tl + len)

\* w is a sequence of records, one of them of an unregistered type
HasUnknownType(w) ==
    /\ \A k \in 1..Len(WireRecordTypes(w, 0)) :
          WireRecordTypes(w, 0)[k] # Malformed
    /\ \E k \in 1..Len(WireRecordTypes(w, 0)) :
          WireRecordTypes(w, 0)[k] \notin RecordTypes

\* the MESSAGE frame opened by byte number i is complete and its payload
\* holds a record of an unregistered type
UnknownTypeFrame(i) ==
    /\ IsLead(i, RESPONSE_CODE.MESSAGE)
    /\ i + 2 <= fed
    /\ DeclaredLength(i) >= 1
    /\ i + 2 + DeclaredLength(i) <= fed
    /\ HasUnknownType(PayloadOf(i))

\* C16: when a record of the payload of a MESSAGE frame has a type name
\* other than "T", "U" and "android.com:pkg", Message.parse throws the
\* unsupported-record-type error and returns no message, and the decoder
\* emits for the frame exactly one event, an ERROR with that text, and no
\* NDEF_MESSAGE, also when records before it decoded.
C16_UnknownTypeAborts ==
    \A i \in 1..fed :
        UnknownTypeFrame(i) =>
          /\ MessageParse(PayloadOf(i)).status = "error"
          /\ MessageParse(PayloadOf(i)).err.lit = "Unsupported record type: "
          /\ MessageParse(PayloadOf(i)).records = <<>>
          /\ Cardinality(FrameEventsOf(i)) = 1
          /\ \A k \in FrameEventsOf(i) :
                /\ events[k].type = COMMS_EVENT_TYPE.ERROR
                /\ events[k].message.lit
                     = "Message read error: Unsupported record type: "
                /\ events[k].message.chars \notin RecordTypes

\* C16 witness: a frame whose payload is a URI record, a record of type
\* "X" and a text record has been consumed and its ERROR event emitted
C16_Witness ==
    \E i \in 1..fed :
        /\ UnknownTypeFrame(i)
        /\ WireRecordTypes(PayloadOf(i), 0) = <<TYPE_URI, <<88>>, TYPE_TEXT>>
        /\ \E k \in FrameEventsOf(i) : events[k].type = COMMS_EVENT_TYPE.ERROR

\* C24: whatever bytes arrive, in state DATA the recorded response is
\* MESSAGE or DATA and in state INFO the buffered lead byte is ACK, ERR or
\* INTERRUPT; processdata does not throw "Unexpected inbound response
\* type", and no emitted event has an undefined type.
C24_NeverRaises ==
    /\ state = COMMS_STATE.DATA
         => inboundResponse \in {RESPONSE_CODE.MESSAGE, RESPONSE_CODE.DATA}
    /\ state = COMMS_STATE.INFO
         => /\ Len(inbound) >= 1
            /\ inbound[1] \in {RESPONSE_CODE.ACK, RESPONSE_CODE.ERR,
                               RESPONSE_CODE.INTERRUPT}
    /\ halt # "thrown"
    /\ \A k \in 1..Len(events) : events[k].type # Undefined

\* C24 witness: an INTERRUPT event has been emitted and the payload of a
\* frame opened by the VERSION code is awaited
C24_Witness ==
    /\ state = COMMS_STATE.DATA
    /\ lead >= 1
    /\ line[lead] = RESPONSE_CODE.VERSION
    /\ inboundResponse = RESPONSE_CODE.DATA
    /\ \E k \in 1..Len(events) :
          events[k].type = COMMS_EVENT_TYPE.INTERRUPT

\* ------------------------------------------------------------------------
\* properties of the codec (CodecSpec)
\* ------------------------------------------------------------------------

\* C4: for a message of Text, URI and AndroidApplication records built from
\* strings, Message.parse of its getBytes output returns a message with as
\* many records, in the same order, each with the type name and the payload
\* bytes it has in the message.
C4_RoundTrip ==
    cpc = "reparsed"
    => /\ parsed.status = "ok"
       /\ Len(parsed.records) = Len(msg)
       /\ \A i \in 1..Len(msg) :
             /\ parsed.records[i].type = msg[i].type
             /\ parsed.records[i].bytes = msg[i].bytes

\* C4 witness: a message of two records, one payload below 256 bytes and
\* one of 256 bytes or more, has been serialized and parsed back
C4_Witness ==
    /\ cpc = "reparsed"
    /\ Len(msg) = 2
    /\ Len(msg[1].bytes) >= 256
    /\ Len(msg[2].bytes) < 256
    /\ Len(parsed.records) = 2

\* the size of the fixed header fields of the record at the start of w:
\* header byte, type length byte, and a 1-byte (short record) or 4-byte
\* length field
FixedHeaderSize(w) == IF Bit(w[1], 4) = 1 THEN 3 ELSE 6

\* the header fields and the type name of the record at the start of w lie
\* within w
HeaderWithin(w) ==
    /\ Len(w) >= 2
    /\ Len(w) >= FixedHeaderSize(w)
    /\ Len(w) >= FixedHeaderSize(w) + w[2]

\* the length field of the record at the start of w, read as an unsigned
\* value, is greater than the number of bytes after the type name
LengthExceeds(w) ==
    LET remaining == Len(w) - FixedHeaderSize(w) - w[2]
    IN  IF Bit(w[1], 4) = 1 THEN w[3] > remaining
        ELSE \/ w[3] >= 128
             \/ w[3] * 16777216 + w[4] * 65536 + w[5] * 256 + w[6] > remaining

\* the texts with which Record.parse reports a truncated stream
TruncatedStreamErrors ==
    {"Invalid NDEF record data", "Invalid NDEF record data (len "}

\* C5: when the length field of a record, read as an unsigned 1-byte or
\* 4-byte value, is greater than the number of bytes that remain after the
\* type name, Record.parse throws the truncated-stream error and returns no
\* record.
C5_OverLongLength ==
    (cpc = "record" /\ HeaderWithin(wire) /\ LengthExceeds(wire))
    => /\ rslt.status = "error"
       /\ rslt.err.lit \in TruncatedStreamErrors

\* C6: Record.parse reads no index at or beyond the buffer length, and when
\* the header fields or the type name would extend past the end of the
\* buffer it throws the truncated-stream error.
C6_TruncatedHeader ==
    cpc = "record"
    => /\ rslt.maxRead < Len(wire)
       /\ ~HeaderWithin(wire)
            => /\ rslt.status = "error"
               /\ rslt.err.lit \in TruncatedStreamErrors

\* the length field of the record at the start of w, read as an unsigned
\* value below 2^31
UnsignedLength(w) ==
    IF Bit(w[1], 4) = 1 THEN w[3]
    ELSE w[3] * 16777216 + w[4] * 65536 + w[5] * 256 + w[6]

\* C21: Message.parse ends on every buffer, with a message or with an
\* error; a Record.parse call that returns gives a consumed count of at
\* least 4, equal to the header byte, the type length byte, the length
\* field, the type name and the payload together, and not beyond the end
\* of the buffer.
C21_ParseTerminates ==
    /\ cpc \in {"parsed", "reparsed"} => parsed.status \in {"ok", "error"}
    /\ (cpc = "record" /\ rslt.status = "ok")
         => /\ ~rslt.nan
            /\ rslt.consumed >= 4
            /\ rslt.consumed <= Len(wire)
            /\ HeaderWithin(wire)
            /\ ~LengthExceeds(wire)
            /\ rslt.consumed = FixedHeaderSize(wire) + wire[2]
                                 + UnsignedLength(wire)

\* ------------------------------------------------------------------------
\* properties of the serializer (CodecSpec)
\* ------------------------------------------------------------------------

\* the number of bytes a record takes on the wire: header byte, type
\* length, a 1-byte length below 256 payload bytes and a 4-byte length
\* otherwise, type name, payload
EncodedSize(r) ==
    2 + (IF Len(r.bytes) < 256 THEN 1 ELSE 4) + Len(r.type) + Len(r.bytes)

\* the index in the serialized message of the header byte of record i
RECURSIVE RecordStart(_, _)
RecordStart(records, i) ==
    IF i = 1 THEN 1
    ELSE RecordStart(records, i - 1) + EncodedSize(records[i - 1])

\* C11: in the output of Message.getBytes for n >= 1 records the header
\* byte of record 1 has the message-begin bit (0x80), the header byte of
\* record n has the message-end bit (0x40), and no other record has either
\* bit, so that a single record has both; for n = 0 the output is empty.
C11_BeginEndMarking ==
    cpc = "serialized"
    => /\ Len(msg) = 0 => wire = <<>>
       /\ Len(wire) = RecordStart(msg, Len(msg) + 1) - 1
       /\ \A i \in 1..Len(msg) :
             /\ SubSeq(wire, RecordStart(msg, i + 1) - Len(msg[i].bytes),
                       RecordStart(msg, i + 1) - 1) = msg[i].bytes
             /\ (Bit(wire[RecordStart(msg, i)], 7) = 1) <=> (i = 1)
             /\ (Bit(wire[RecordStart(msg, i)], 6) = 1) <=> (i = Len(msg))

\* C11 witness: a message of three records has been serialized
C11_Witness ==
    /\ cpc = "serialized"
    /\ Len(msg) = 3

\* the TNF of each record type: 0x04 for the Android application record,
\* 0x01 (well-known) for the text and the URI record
VariantTNF(type) == IF type = TYPE_AAR THEN 4 ELSE 1

\* C20: the low three bits of the header byte of every serialized record
\* are 0x04 for an AndroidApplicationRecord and 0x01 for a TextRecord or a
\* URIRecord, for records built from strings and for records decoded from
\* wire bytes whose header carries any TNF.
C20_VariantTNF ==
    /\ cpc = "serialized"
         => \A i \in 1..Len(msg) :
               wire[RecordStart(msg, i)] % 8 = VariantTNF(msg[i].type)
    /\ cpc = "reserialized"
         => /\ Len(rewire) = RecordStart(parsed.records,
                                         Len(parsed.records) + 1) - 1
            /\ \A i \in 1..Len(parsed.records) :
                  rewire[RecordStart(parsed.records, i)] % 8
                    = VariantTNF(parsed.records[i].type)

\* C20 witness: an Android application record decoded from a buffer whose
\* header byte has TNF 2 has been serialized
C20_Witness ==
    /\ cpc = "reserialized"
    /\ Len(wire) > 0
    /\ wire[1] % 8 = 2
    /\ Len(parsed.records) = 1
    /\ parsed.records[1].type = TYPE_AAR
    /\ Len(rewire) > 0

C15_WitnessEscapes ==
    /\ cpc = "fromjson"
    /\ Len(msg) = 2
    /\ msg[1].type = TYPE_URI
    /\ msg[1].bytes[1] = 1
    /\ msg[2].type = TYPE_TEXT
    /\ msg[2].text = <<34, 92, 10, 1, 47, 117>>
    /\ Len(json[2].args) > Len(msg[2].text) + 2

\* ------------------------------------------------------------------------
\* properties of the record types (RecordSpec)
\* ------------------------------------------------------------------------

\* str begins with prefix when letters are compared without case
IsPrefixNoCase(prefix, str) ==
    /\ Len(str) >= Len(prefix)
    /\ \A i \in 1..Len(prefix) : LowerChar(str[i]) = LowerChar(prefix[i])

\* the table indices 1..35 whose entry is a prefix of uri
PrefixEntries(uri) ==
    {p \in 1..35 : IsPrefixNoCase(ProtocolList[p + 1], uri)}

\* C12: when some table entry 1..35 is a case-insensitive prefix of the
\* URI a URIRecord is built from, decoding the payload of that record with
\* URIRecord.parse gives the same URI, character for character.
C12_URIRoundTrip ==
    (rpc = "redecoded" /\ rec.type = TYPE_URI /\ PrefixEntries(arg.val) # {})
    => rec2.URI = arg.val

\* the longest of the table entries 1..35 that are prefixes of uri
LongestPrefixEntry(uri) ==
    CHOOSE p \in PrefixEntries(uri) :
        \A q \in PrefixEntries(uri) :
            Len(ProtocolList[q + 1]) <= Len(ProtocolList[p + 1])

\* C13: payload byte 0 of a URIRecord built from a URI is the index of the
\* longest table entry 1..35 that is a case-insensitive prefix of the URI,
\* and the other payload bytes are the URI without that prefix; byte 0 is 0
\* only when no entry 1..35 is a prefix, and then the whole URI follows.
C13_URIPrefixSelection ==
    (rpc = "built" /\ rec.type = TYPE_URI)
    => /\ Len(rec.bytes) >= 1
       /\ IF PrefixEntries(arg.val) = {}
          THEN /\ rec.bytes[1] = 0
               /\ SubSeq(rec.bytes, 2, Len(rec.bytes)) = arg.val
          ELSE /\ rec.bytes[1] = LongestPrefixEntry(arg.val)
               /\ SubSeq(rec.bytes, 2, Len(rec.bytes))
                    = Substr(arg.val,
                             Len(ProtocolList[LongestPrefixEntry(arg.val) + 1]))

\* C17: for every byte b, the Header read from the byte that toByte writes
\* for the Header read from b has the same truth value in each of the five
\* flags and the same TNF as the Header read from b, and TNF is in 0..7.
C17_HeaderRoundTrip ==
    rpc = "reread"
    => /\ Truthy(hdr[3].messageBegin) = Truthy(hdr[1].messageBegin)
       /\ Truthy(hdr[3].messageEnd) = Truthy(hdr[1].messageEnd)
       /\ Truthy(hdr[3].chunked) = Truthy(hdr[1].chunked)
       /\ Truthy(hdr[3].shortRecord) = Truthy(hdr[1].shortRecord)
       /\ Truthy(hdr[3].IDLength) = Truthy(hdr[1].IDLength)
       /\ hdr[3].TNF = hdr[1].TNF
       /\ hdr[1].TNF \in 0..7
       /\ hdr[3].TNF \in 0..7

\* C17 witness: the byte 0x25 (chunked alone among the flags, TNF 5) has
\* been read, written and read again
C17_Witness ==
    /\ rpc = "reread"
    /\ arg.val = <<37>>
    /\ Truthy(hdr[1].chunked)
    /\ hdr[1].TNF = 5

\* C18: URIRecord.parse returns a URI record for every payload, the empty
\* one included; when payload byte 0 is 36 or more no prefix is added, the
\* URI being the other payload bytes read as characters.
C18_URIDecodeTotal ==
    (rpc = "decoded" /\ arg.type = TYPE_URI)
    => /\ rec.type = TYPE_URI
       /\ Len(arg.val) = 0 => rec.URI = <<>>
       /\ (Len(arg.val) >= 1 /\ arg.val[1] >= 36)
            => rec.URI = SubSeq(arg.val, 2, Len(arg.val))

\* C18 witness: a payload of index byte 36 and two more bytes has been
\* decoded
C18_Witness ==
    /\ rpc = "decoded"
    /\ arg.type = TYPE_URI
    /\ Len(arg.val) = 3
    /\ arg.val[1] = 36

\* C19: TextRecord.parse of a payload of 0, 1 or 2 bytes returns a record
\* with language "en" and empty text; of a payload of 3 bytes or more, a
\* record whose text is the bytes from index 3 on, read as characters.
C19_TextDegrade ==
    (rpc = "decoded" /\ arg.type = TYPE_TEXT)
    => /\ rec.type = TYPE_TEXT
       /\ IF Len(arg.val) < 3
          THEN rec.lang = LANG_EN /\ rec.text = <<>>
          ELSE rec.text = SubSeq(arg.val, 4, Len(arg.val))

\* C19 witness: a payload of two bytes, neither of them of "en", has been
\* decoded
C19_Witness ==
    /\ rpc = "decoded"
    /\ arg.type = TYPE_TEXT
    /\ arg.val = <<1, 97>>

\* ------------------------------------------------------------------------
\* properties of the serial link (LinkSpec)
\* ------------------------------------------------------------------------

\* the number of bytes 0x4A among the first i bytes of p
MarkersUpTo(p, i) == Cardinality({j \in 1..i : p[j] = 74})

\* C14: for data p sent while the port is open, senddata writes 0x4A, 0xE5
\* and then each byte of p in order, a byte 0x4A preceded by 0xE5 and every
\* other byte, 0xE5 included, alone; the written length is 2 + |p| + the
\* number of bytes 0x4A in p.
C14_OutboundFraming ==
    (written # NoWrite /\ sending.open)
    => /\ Len(written) = 2 + Len(sending.data)
                           + MarkersUpTo(sending.data, Len(sending.data))
       /\ written[1] = 74
       /\ written[2] = 229
       /\ \A i \in 1..Len(sending.data) :
             /\ written[2 + i + MarkersUpTo(sending.data, i)] = sending.data[i]
             /\ sending.data[i] = 74
                  => written[1 + i + MarkersUpTo(sending.data, i)] = 229

\* C14 witness: data holding 0xE5, 0x4A and another byte has been sent on
\* an open port
C14_Witness ==
    /\ written # NoWrite
    /\ sending.open
    /\ sending.data = <<229, 74, 1>>
    /\ Len(written) = 6

\* the positions of w after the two preamble bytes that are not followed
\* by a byte 0x4A
KeptPositions(w) ==
    {i \in 3..Len(w) : ~(i < Len(w) /\ w[i + 1] = 74)}

\* w without its preamble and without the byte before each later 0x4A
Recover(w) ==
    [k \in 1..Cardinality(KeptPositions(w)) |->
        w[CHOOSE i \in KeptPositions(w) :
            Cardinality({j \in KeptPositions(w) : j <= i}) = k]]

\* C25: the bytes senddata writes for data p are written for no other data
\* q, and p is what is left of them when the preamble and the byte before
\* each later 0x4A are removed.
C25_EncodingInjective ==
    written # NoWrite
    => /\ Recover(written) = sending.data
       /\ \A q \in SeqsUpTo(SendAlphabet, MaxSend) :
             q # sending.data => SendBytes(q) # written

\* C25 witness: data with 0xE5 just before 0x4A has been written, the
\* escape byte next to a data byte of the same value
C25_Witness ==
    /\ sending.data = <<229, 74>>
    /\ written = <<74, 229, 229, 229, 74>>

\* ------------------------------------------------------------------------
\* properties of the client (ClientSpec)
\* ------------------------------------------------------------------------

\* C22: a sendMessage call made while port is null (before a connect,
\* after a failed connect, after the close callback) throws "Not
\* connected" and writes nothing; it does not return normally.
C22_SendMessageRefuses ==
    (outcome.result # "none" /\ ~outcome.hadPort)
    => /\ outcome.result = "Not connected"
       /\ ~outcome.wrote

\* the event connectport emits when a port object exists
AlreadyConnected == ConnectEvent("Already connected, call close")

\* C23: at most one SerialPort object exists at a time, and port is null
\* exactly when none exists; a connectport call made while one exists
\* emits the CONNECT_EVENT "Already connected, call close", creates no port
\* and leaves port and the decoder state as they are; port becomes null
\* only in the close callback, which emits the CONNECT_EVENT "Closed".
C23_SingleConnection ==
    /\ [](live <= 1 /\ (port = NULL <=> live = 0))
    /\ [][(port # NULL
            /\ \E path \in Paths, throws \in BOOLEAN : connectport(path, throws))
          => /\ events' = Append(events, AlreadyConnected)
             /\ port' = port
             /\ live' = live
             /\ UNCHANGED <<state, inbound, inboundCount, inboundResponse>>]_vars
    /\ [][(port # NULL /\ port' = NULL)
          => /\ port.handlers
             /\ live' = 0
             /\ events' = Append(events, ConnectEvent("Closed"))]_vars

\* C23 witness: a connectport call was refused, the port was closed, and a
\* new port object exists
C23_Witness ==
    /\ port # NULL
    /\ live = 1
    /\ \E j \in 1..Len(events) :
          /\ events[j] = AlreadyConnected
          /\ \E k \in (j + 1)..Len(events) : events[k] = ConnectEvent("Closed")

====
